---------------------------- MODULE Spec2Model ----------------------------
(***************************************************************************)
(* Paycom vs UZIO census audit (src/app.py): the value normalizers, the    *)
(* mapping-sheet loader, the record aligner, the per-(employee, field)     *)
(* status decision of run_comparison and the field summary.                *)
(*                                                                         *)
(* A Python str is a sequence of one-character strings.  A Python value is *)
(* a record [t, s, n, e, neg]: t = "nan" (None / float NaN, an empty       *)
(* cell), "str" (s = the characters), "int" (n = the integer),             *)
(* "dec" (a finite decimal.Decimal: coefficient n, e digits after the      *)
(* point, neg = its sign) or "decnan" (a Decimal NaN).                     *)
(*                                                                         *)
(* Three specifications share the variables:                               *)
(*   Spec         run_comparison as it is coded, from the workbook to the  *)
(*                exception that ends it (line 348 of read_mapping_sheet   *)
(*                raises for every mapping sheet that has its two columns);*)
(*   SpecCompare  the comparison loop and the report (lines 397-640),      *)
(*                entered with the mapping entries lines 335-345 build;    *)
(*   SpecNorm     norm_value_for_field applied to a value and then to its  *)
(*                own result.                                              *)
(*                                                                         *)
(* Literals: k_ the lowercase keywords of the code, c_ column and field    *)
(* names, v_ cell values.                                                  *)
(***************************************************************************)
EXTENDS Integers, Sequences, FiniteSets, TLC

(* ------------------------- string literals --------------------------- *)
k_nan == <<"n","a","n">>
k_voluntary == <<"v","o","l","u","n","t","a","r","y">>
k_involuntary == <<"i","n","v","o","l","u","n","t","a","r","y">>
k_termination_reason == <<"t","e","r","m","i","n","a","t","i","o","n"," ","r","e","a","s","o","n">>
k_annual_salary == <<"a","n","n","u","a","l"," ","s","a","l","a","r","y">>
k_hourly_pay_rate == <<"h","o","u","r","l","y"," ","p","a","y"," ","r","a","t","e">>
k_hourly_rate == <<"h","o","u","r","l","y"," ","r","a","t","e">>
k_working_hours_per_week == <<"w","o","r","k","i","n","g"," ","h","o","u","r","s"," ","p","e","r"," ","w","e","e","k">>
k_salar == <<"s","a","l","a","r">>
k_salary == <<"s","a","l","a","r","y">>
k_hour == <<"h","o","u","r">>
k_hourly == <<"h","o","u","r","l","y">>
k_on_leave == <<"o","n"," ","l","e","a","v","e">>
k_leave == <<"l","e","a","v","e">>
k_active == <<"a","c","t","i","v","e">>
k_middle == <<"m","i","d","d","l","e">>
k_initial == <<"i","n","i","t","i","a","l">>
k_suffix == <<"s","u","f","f","i","x">>
k_employment_type == <<"e","m","p","l","o","y","m","e","n","t"," ","t","y","p","e">>
k_pay_type == <<"p","a","y"," ","t","y","p","e">>
k_employment_status == <<"e","m","p","l","o","y","m","e","n","t"," ","s","t","a","t","u","s">>
c_Employee_ID == <<"E","m","p","l","o","y","e","e"," ","I","D">>
c_EmployeeID == <<"E","m","p","l","o","y","e","e","I","D">>
c_Employee == <<"E","m","p","l","o","y","e","e">>
c_Employee_Code == <<"E","m","p","l","o","y","e","e"," ","C","o","d","e">>
c_Employee_Code_us == <<"E","m","p","l","o","y","e","e","_","C","o","d","e">>
c_Employment_Status == <<"E","m","p","l","o","y","m","e","n","t"," ","S","t","a","t","u","s">>
c_EmploymentStatus == <<"E","m","p","l","o","y","m","e","n","t","S","t","a","t","u","s">>
c_Pay_Type == <<"P","a","y"," ","T","y","p","e">>
c_UZIO_Column == <<"U","Z","I","O"," ","C","o","l","u","m","n">>
c_Paycom_Column == <<"P","a","y","c","o","m"," ","C","o","l","u","m","n">>
c_Uzio_Coloumn == <<"U","z","i","o"," ","C","o","l","o","u","m","n">>
c_Paycom_Coloumn == <<"P","a","y","c","o","m"," ","C","o","l","o","u","m","n">>
c_Notes == <<"N","o","t","e","s">>
c_Field == <<"F","i","e","l","d">>
c_Name == <<"N","a","m","e">>
c_Badge == <<"B","a","d","g","e">>
c_employee_id_star == <<" ","e","m","p","l","o","y","e","e"," "," ","i","d","*">>
c_Annual_Salary == <<"A","n","n","u","a","l"," ","S","a","l","a","r","y">>
c_Hourly_Pay_Rate == <<"H","o","u","r","l","y"," ","P","a","y"," ","R","a","t","e">>
c_Working_Hours == <<"W","o","r","k","i","n","g"," ","H","o","u","r","s"," ","p","e","r"," ","W","e","e","k">>
c_Termination_Reason == <<"T","e","r","m","i","n","a","t","i","o","n"," ","R","e","a","s","o","n">>
c_Suffix == <<"S","u","f","f","i","x">>
c_Zip_Code == <<"Z","i","p"," ","C","o","d","e">>
c_Phone == <<"P","h","o","n","e">>
c_Middle_Initial == <<"M","i","d","d","l","e"," ","I","n","i","t","i","a","l">>
c_Employment_Type == <<"E","m","p","l","o","y","m","e","n","t"," ","T","y","p","e">>
c_First_Name == <<"F","i","r","s","t"," ","N","a","m","e">>
c_Hire_Date == <<"H","i","r","e"," ","D","a","t","e">>
c_Salary_Annual == <<"S","a","l","a","r","y"," ","(","A","n","n","u","a","l",")">>
c_Base_or_Annual == <<"B","a","s","e"," ","P","a","y"," ","o","r"," ","A","n","n","u","a","l"," ","S","a","l","a","r","y">>
c_Unlisted == <<"U","n","l","i","s","t","e","d">>
c_Name_or_First == <<"N","a","m","e"," ","o","r"," ","F","i","r","s","t"," ","N","a","m","e">>
v_x == <<"x">>
v_y == <<"y">>
v_7 == <<"7">>
v_7_0 == <<" ","7",".","0">>
v_12 == <<"1","2">>
v_100 == <<"1","0","0">>
v_Active == <<"A","c","t","i","v","e">>
v_On_Leave == <<"O","n"," ","L","e","a","v","e">>
v_Hourly == <<"H","o","u","r","l","y">>
v_Salaried == <<"S","a","l","a","r","i","e","d">>
v_Salary == <<"S","a","l","a","r","y">>
v_Voluntary == <<"V","o","l","u","n","t","a","r","y">>
v_Invol_Term == <<"I","n","v","o","l","u","n","t","a","r","y"," ","T","e","r","m","i","n","a","t","i","o","n"," ","o","f"," ","E","m","p","l","o","y","m","e","n","t">>
v_Vol_Term == <<"V","o","l","u","n","t","a","r","y"," ","T","e","r","m","i","n","a","t","i","o","n"," ","o","f"," ","E","m","p","l","o","y","m","e","n","t">>
v_Vol_Resig == <<"V","o","l","u","n","t","a","r","y"," ","R","e","s","i","g","n","a","t","i","o","n">>
v_Attendance == <<"A","t","t","e","n","d","a","n","c","e"," ","V","i","o","l","a","t","i","o","n">>
v_Other == <<"O","t","h","e","r">>
v_Retired == <<"R","e","t","i","r","e","d">>
v_50000 == <<"5","0","0","0","0">>
v_50000_00 == <<"5","0","0","0","0",".","0","0">>
v_62000 == <<"6","2","0","0","0">>
v_25_5 == <<"2","5",".","5">>
v_40 == <<"4","0">>
v_0 == <<"0">>
v_nan_dot == <<"n","a","n",".">>
v_None_paren == <<"(","N","o","n","e",")">>
v_Jr_dot == <<"J","r",".">>
v_JR == <<"J","R">>
v_Full_Time == <<"F","u","l","l","-","T","i","m","e">>
v_Full_Time_sp == <<"F","u","l","l"," ","T","i","m","e">>
v_98101 == <<"9","8","1","0","1">>
v_9810_1 == <<"9","8","1","0","-","1">>
v_098101 == <<"0","9","8","1","0","1">>
v_phone_a == <<"1","-","2","0","6","-","5","5","5","-","0","1","0","0">>
v_phone_b == <<"2","0","6","5","5","5","0","1","0","0">>
v_date_us == <<"0","1","/","0","2","/","2","0","2","0">>
v_date_iso == <<"2","0","2","0","-","0","1","-","0","2">>
v_pending == <<"p","e","n","d","i","n","g">>
v_Ann == <<"A","n","n">>
v_A == <<"A">>
v_B_dot == <<"B",".">>

(* ----------------------------- characters ---------------------------- *)
NBSP == "nbsp"
UpperSeq == <<"A","B","C","D","E","F","G","H","I","J","K","L","M","N","O","P","Q","R","S","T","U","V","W","X","Y","Z">>
LowerSeq == <<"a","b","c","d","e","f","g","h","i","j","k","l","m","n","o","p","q","r","s","t","u","v","w","x","y","z">>
DigitSeq == <<"0","1","2","3","4","5","6","7","8","9">>
UpperChars == {UpperSeq[i] : i \in 1..Len(UpperSeq)}
LowerChars == {LowerSeq[i] : i \in 1..Len(LowerSeq)}
DigitChars == {DigitSeq[i] : i \in 1..Len(DigitSeq)}
\* str.isspace / regex \s on the characters of the model
SpaceChars == {" ", "\n", "\r", "\t", NBSP}

IsSpace(c) == c \in SpaceChars
IsDigit(c) == c \in DigitChars
IsAlpha(c) == c \in UpperChars \cup LowerChars

\* str.lower / str.casefold, one character
LowerChar(c) == IF c \in UpperChars THEN LowerSeq[CHOOSE i \in 1..Len(UpperSeq) : UpperSeq[i] = c] ELSE c
UpperChar(c) == IF c \in LowerChars THEN UpperSeq[CHOOSE i \in 1..Len(LowerSeq) : LowerSeq[i] = c] ELSE c
DigitVal(c) == (CHOOSE i \in 1..Len(DigitSeq) : DigitSeq[i] = c) - 1

(* ------------------------------ str methods -------------------------- *)
casefold(s) == [i \in 1..Len(s) |-> LowerChar(s[i])]

RECURSIVE lstrip(_, _)
lstrip(s, chars) == IF s # <<>> /\ Head(s) \in chars THEN lstrip(Tail(s), chars) ELSE s

RECURSIVE rstrip(_, _)
rstrip(s, chars) == IF s # <<>> /\ s[Len(s)] \in chars THEN rstrip(SubSeq(s, 1, Len(s) - 1), chars) ELSE s

\* s.strip(chars)
strip_chars(s, chars) == rstrip(lstrip(s, chars), chars)
\* s.strip()
strip(s) == strip_chars(s, SpaceChars)

\* s.replace(c, " ") for every c of chars
RepBySpace(s, chars) == [i \in 1..Len(s) |-> IF s[i] \in chars THEN " " ELSE s[i]]
\* s.replace(c, "") for every c of chars
Remove(s, chars) == SelectSeq(s, LAMBDA c : c \notin chars)

\* re.sub(r"\s+", " ", s)
RECURSIVE collapse_ws(_)
collapse_ws(s) ==
    IF s = <<>> THEN <<>>
    ELSE IF IsSpace(Head(s))
         THEN <<" ">> \o collapse_ws(lstrip(s, SpaceChars))
         ELSE <<Head(s)>> \o collapse_ws(Tail(s))

\* sub in s
Contains(sub, s) == \E i \in 0..(Len(s) - Len(sub)) : SubSeq(s, i + 1, i + Len(sub)) = sub

\* re.fullmatch(r"\d+\.0+", s)
IsDigitsDotZeros(s) ==
    \E d \in 2..(Len(s) - 1) :
        /\ s[d] = "."
        /\ \A i \in 1..(d - 1) : IsDigit(s[i])
        /\ \A i \in (d + 1)..Len(s) : s[i] = "0"

\* s.split(".")[0]
RECURSIVE BeforeDot(_)
BeforeDot(s) == IF s = <<>> \/ Head(s) = "." THEN <<>> ELSE <<Head(s)>> \o BeforeDot(Tail(s))

\* str(n) of an int n >= 0
RECURSIVE NatToStr(_)
NatToStr(n) == IF n < 10 THEN <<DigitSeq[n + 1]>> ELSE NatToStr(n \div 10) \o <<DigitSeq[(n % 10) + 1]>>

\* int(s) of a string of digits
RECURSIVE StrToNat(_)
StrToNat(s) == IF s = <<>> THEN 0 ELSE 10 * StrToNat(SubSeq(s, 1, Len(s) - 1)) + DigitVal(s[Len(s)])

\* lexicographic order of str (sorted() on the identifiers), by code point
CharOrd(c) ==
    IF c \in DigitChars THEN 48 + DigitVal(c)
    ELSE IF c \in UpperChars THEN 64 + (CHOOSE i \in 1..Len(UpperSeq) : UpperSeq[i] = c)
    ELSE IF c \in LowerChars THEN 96 + (CHOOSE i \in 1..Len(LowerSeq) : LowerSeq[i] = c)
    ELSE IF c = " " THEN 32
    ELSE IF c = "-" THEN 45
    ELSE IF c = "." THEN 46
    ELSE IF c = NBSP THEN 160
    ELSE 33

RECURSIVE StrLess(_, _)
StrLess(a, b) ==
    IF b = <<>> THEN FALSE
    ELSE IF a = <<>> THEN TRUE
    ELSE IF Head(a) = Head(b) THEN StrLess(Tail(a), Tail(b))
    ELSE CharOrd(Head(a)) < CharOrd(Head(b))

(* ---------------------------- Python values -------------------------- *)
PyNaN == [t |-> "nan", s |-> <<>>, n |-> 0, e |-> 0, neg |-> FALSE]
PyStr(str) == [t |-> "str", s |-> str, n |-> 0, e |-> 0, neg |-> FALSE]
PyInt(i) == [t |-> "int", s |-> <<>>, n |-> i, e |-> 0, neg |-> FALSE]
PyDec(sign, coef, places) == [t |-> "dec", s |-> <<>>, n |-> coef, e |-> places, neg |-> sign]
PyDecNaN == [t |-> "decnan", s |-> <<>>, n |-> 0, e |-> 0, neg |-> FALSE]
PyNone == [t |-> "None", s |-> <<>>, n |-> 0, e |-> 0, neg |-> FALSE]
EmptyStr == PyStr(<<>>)

Pow10(k) == IF k = 0 THEN 1 ELSE IF k = 1 THEN 10 ELSE IF k = 2 THEN 100 ELSE IF k = 3 THEN 1000
            ELSE IF k = 4 THEN 10000 ELSE IF k = 5 THEN 100000 ELSE 1000000

\* str(d) of a finite Decimal whose exponent is within the plain notation
DecToStr(d) ==
    LET digs == NatToStr(d.n)
        padded == IF Len(digs) > d.e THEN digs
                  ELSE [i \in 1..(d.e + 1 - Len(digs)) |-> "0"] \o digs
        body == IF d.e = 0 THEN digs
                ELSE SubSeq(padded, 1, Len(padded) - d.e) \o <<".">>
                     \o SubSeq(padded, Len(padded) - d.e + 1, Len(padded))
    IN  IF d.neg THEN <<"-">> \o body ELSE body

\* str(x)
PyToStr(x) ==
    IF x.t = "str" THEN x.s
    ELSE IF x.t = "int" THEN NatToStr(x.n)
    ELSE IF x.t = "dec" THEN DecToStr(x)
    ELSE IF x.t = "decnan" THEN <<"N","a","N">>
    ELSE IF x.t = "None" THEN <<"N","o","n","e">>
    ELSE k_nan

\* a == b of two normalized values (str or Decimal; Decimal compares by value,
\* a Decimal NaN equals nothing, a str never equals a Decimal)
PyEq(a, b) ==
    IF a.t = "str" /\ b.t = "str" THEN a.s = b.s
    ELSE IF a.t = "dec" /\ b.t = "dec"
         THEN LET sa == IF a.neg THEN 0 - a.n ELSE a.n
                  sb == IF b.neg THEN 0 - b.n ELSE b.n
                  m == IF a.e > b.e THEN a.e ELSE b.e
              IN  sa * Pow10(m - a.e) = sb * Pow10(m - b.e)
    ELSE IF a.t = "int" /\ b.t = "int" THEN a.n = b.n
    ELSE FALSE

\* x == ""
IsEmptyStr(x) == x.t = "str" /\ x.s = <<>>

(* ------------------------------ helpers ------------------------------ *)
\* F(v) with v evaluated once: a Python local, assigned once and read many times
Let1(v, F(_)) == CHOOSE r \in {F(w) : w \in {v}} : TRUE

\* norm_colname (the curly quotes it straightens are not characters of the model)
norm_colname(c) ==
    strip_chars(strip_chars(Remove(strip(collapse_ws(RepBySpace(c, {"\n", "\r", NBSP}))), {"*"}),
                            {"\""}), {"'"})

BlankWords == {<<>>, k_nan, <<"n", "o", "n", "e">>, <<"n", "u", "l", "l">>}

\* norm_blank: "" for None, NaN and the blank words, else x itself
norm_blank(x) ==
    IF x.t \in {"nan", "None"} THEN EmptyStr
    ELSE IF x.t = "str" /\ casefold(strip(x.s)) \in BlankWords THEN EmptyStr
    ELSE x

\* digits_only
digits_only(x) ==
    Let1(norm_blank(x), LAMBDA b :
        IF IsEmptyStr(b) THEN <<>>
        ELSE IF b.t = "int" THEN NatToStr(b.n)
        ELSE Let1(strip(PyToStr(b)), LAMBDA s :
                SelectSeq(IF IsDigitsDotZeros(s) THEN BeforeDot(s) ELSE s, IsDigit)))

\* norm_phone_digits
norm_phone_digits(x) ==
    Let1(digits_only(x), LAMBDA d :
        IF d = <<>> THEN <<>>
        ELSE Let1(IF Len(d) = 11 /\ d[1] = "1" THEN Tail(d) ELSE d, LAMBDA d1 :
                IF Len(d1) > 10 THEN SubSeq(d1, Len(d1) - 9, Len(d1)) ELSE d1))

\* str.zfill(5) of a string of digits
zfill5(d) == IF Len(d) < 5 THEN [i \in 1..(5 - Len(d)) |-> "0"] \o d ELSE d

\* a zip normalizer that keeps the last five digits instead of the first five
norm_zip_last5(x) ==
    Let1(digits_only(x), LAMBDA d :
        IF d = <<>> THEN <<>>
        ELSE Let1(IF 0 < Len(d) /\ Len(d) < 5 THEN zfill5(d) ELSE d, LAMBDA d1 :
                SubSeq(d1, Len(d1) - 4, Len(d1))))

\* norm_zip_first5
norm_zip_first5(x) ==
    Let1(digits_only(x), LAMBDA d :
        IF d = <<>> THEN <<>>
        ELSE Let1(IF 0 < Len(d) /\ Len(d) < 5 THEN zfill5(d) ELSE d, LAMBDA d1 :
                SubSeq(d1, 1, IF Len(d1) < 5 THEN Len(d1) ELSE 5)))

\* pd.to_datetime(s).date().isoformat() on the two date shapes of the model,
\* YYYY-MM-DD and MM/DD/YYYY; <<>> stands for the exception (not a date)
IsIsoDate(s) ==
    /\ Len(s) = 10 /\ s[5] = "-" /\ s[8] = "-"
    /\ \A i \in {1, 2, 3, 4, 6, 7, 9, 10} : IsDigit(s[i])
IsUsDate(s) ==
    /\ Len(s) = 10 /\ s[3] = "/" /\ s[6] = "/"
    /\ \A i \in {1, 2, 4, 5, 7, 8, 9, 10} : IsDigit(s[i])
to_datetime_iso(s) ==
    IF IsIsoDate(s) THEN s
    ELSE IF IsUsDate(s) THEN SubSeq(s, 7, 10) \o <<"-">> \o SubSeq(s, 1, 2) \o <<"-">> \o SubSeq(s, 4, 5)
    ELSE <<>>

\* try_parse_date
try_parse_date(x) ==
    Let1(norm_blank(x), LAMBDA b :
        IF IsEmptyStr(b) THEN <<>>
        ELSE IF b.t = "str"
             THEN Let1(strip(b.s), LAMBDA s :
                     IF to_datetime_iso(s) # <<>> THEN to_datetime_iso(s) ELSE s)
             ELSE PyToStr(b))

\* Decimal(s): [sign] digits [. digits] read as a finite Decimal, [sign] nan [digits]
\* as a Decimal NaN, anything else InvalidOperation (None here).  The strings of the
\* model hold no exponent, no underscore, no "inf" and no "snan".
DecimalBody(neg, body) ==
    LET dots == Len(SelectSeq(body, LAMBDA c : c = "."))
        digs == SelectSeq(body, IsDigit)
        places == IF dots = 0 THEN 0 ELSE Len(body) - (CHOOSE i \in 1..Len(body) : body[i] = ".")
    IN  IF Len(body) >= 3 /\ casefold(SubSeq(body, 1, 3)) = k_nan
           /\ \A i \in 4..Len(body) : IsDigit(body[i])
        THEN PyDecNaN
        ELSE IF Len(digs) >= 1 /\ dots <= 1 /\ Len(digs) + dots = Len(body)
        THEN PyDec(neg, StrToNat(digs), places)
        ELSE PyNone

Decimal(s0) ==
    Let1(strip(s0), LAMBDA s :
        IF s # <<>> /\ Head(s) \in {"+", "-"}
        THEN Let1(Tail(s), LAMBDA body : DecimalBody(Head(s) = "-", body))
        ELSE DecimalBody(FALSE, s))

\* safe_decimal: a Decimal or None
safe_decimal(x) ==
    Let1(norm_blank(x), LAMBDA b :
        IF IsEmptyStr(b) THEN PyNone
        ELSE IF b.t = "int" THEN PyDec(FALSE, b.n, 0)
        ELSE Let1(Remove(strip(PyToStr(b)), {",", "$"}), LAMBDA s :
                Decimal(IF IsDigitsDotZeros(s) THEN BeforeDot(s) ELSE s)))

\* approx_equal_decimal
approx_equal_decimal(a, b) == IF a.t = "None" \/ b.t = "None" THEN FALSE ELSE PyEq(a, b)

\* norm_spaces_punct
\* re.sub(r"[^A-Za-z0-9\s]", " ", s)
DropPunct(s) == [i \in 1..Len(s) |-> IF IsAlpha(s[i]) \/ IsDigit(s[i]) \/ IsSpace(s[i]) THEN s[i] ELSE " "]

norm_spaces_punct(x) ==
    Let1(norm_blank(x), LAMBDA b :
        IF IsEmptyStr(b) THEN <<>>
        ELSE casefold(strip(collapse_ws(DropPunct(
                 RepBySpace(RepBySpace(PyToStr(b), {NBSP}), {"-", "_", "/"}))))))

\* norm_middle_initial
norm_middle_initial(x) ==
    Let1(norm_blank(x), LAMBDA b :
        IF IsEmptyStr(b) THEN <<>>
        ELSE Let1(SelectSeq(strip(PyToStr(b)), IsAlpha), LAMBDA alphas :
                IF alphas = <<>> THEN <<>> ELSE <<UpperChar(alphas[1])>>))

\* norm_suffix
norm_suffix(x) == norm_spaces_punct(x)

\* norm_pay_type
norm_pay_type(x) ==
    Let1(norm_spaces_punct(x), LAMBDA s :
        IF s = <<>> THEN <<>>
        ELSE IF Contains(k_salar, s) THEN k_salary
        ELSE IF Contains(k_hour, s) THEN k_hourly
        ELSE s)

\* norm_employment_status
norm_employment_status(x) ==
    Let1(norm_spaces_punct(x), LAMBDA s :
        IF s = <<>> THEN <<>>
        ELSE IF s \in {k_on_leave, k_leave} THEN k_active
        ELSE s)

\* norm_termination_reason
norm_termination_reason(x) == norm_spaces_punct(x)

\* termination_reason_equivalent
termination_reason_equivalent(uzio_val, paycom_val) ==
    Let1(norm_termination_reason(uzio_val), LAMBDA u :
    Let1(norm_termination_reason(paycom_val), LAMBDA p :
        LET u_has_vol == Contains(k_voluntary, u)
            p_has_vol == Contains(k_voluntary, p)
            u_has_invol == Contains(k_involuntary, u)
            p_has_invol == Contains(k_involuntary, p)
        IN  IF u = <<>> /\ p = <<>> THEN TRUE
            ELSE IF u_has_invol /\ p_has_invol THEN TRUE
            ELSE IF u_has_vol /\ p_has_vol THEN TRUE
            ELSE FALSE))

DATE_KEYWORDS == {<<"d", "a", "t", "e">>, <<"d", "o", "b">>, <<"b", "i", "r", "t", "h">>, <<"e", "f", "f", "e", "c", "t", "i", "v", "e">>, <<"d", "o", "h">>, <<"h", "i", "r", "e">>}
ZIP_KEYWORDS == {<<"z", "i", "p">>, <<"z", "i", "p", "c", "o", "d", "e">>, <<"p", "o", "s", "t", "a", "l">>}
PHONE_KEYWORDS == {<<"p", "h", "o", "n", "e">>, <<"m", "o", "b", "i", "l", "e">>}
NUMERIC_HINTS == {k_salary, <<"r", "a", "t", "e">>, <<"h", "o", "u", "r", "s">>, <<"a", "m", "o", "u", "n", "t">>, <<"p", "e", "r", "c", "e", "n", "t">>, <<"p", "e", "r", "c", "e", "n", "t", "a", "g", "e">>, <<"d", "i", "g", "i", "t", "s">>}

AnyIn(keywords, f) == \E k \in keywords : Contains(k, f)

\* norm_value_for_field: a str, or a Decimal for a numeric field
norm_value_for_field(x, field_name) ==
    Let1(casefold(norm_colname(field_name)), LAMBDA f :
    Let1(norm_blank(x), LAMBDA xb :
        IF IsEmptyStr(xb) THEN EmptyStr
        ELSE IF AnyIn(PHONE_KEYWORDS, f) THEN PyStr(norm_phone_digits(xb))
        ELSE IF AnyIn(ZIP_KEYWORDS, f) THEN PyStr(norm_zip_first5(xb))
        ELSE IF AnyIn(DATE_KEYWORDS, f) THEN PyStr(try_parse_date(xb))
        ELSE IF Contains(k_middle, f) /\ Contains(k_initial, f) THEN PyStr(norm_middle_initial(xb))
        ELSE IF Contains(k_suffix, f) THEN PyStr(norm_suffix(xb))
        ELSE IF Contains(k_employment_type, f) THEN PyStr(norm_spaces_punct(xb))
        ELSE IF strip(f) = k_pay_type \/ Contains(k_pay_type, f) THEN PyStr(norm_pay_type(xb))
        ELSE IF Contains(k_employment_status, f) THEN PyStr(norm_employment_status(xb))
        ELSE IF AnyIn(NUMERIC_HINTS, f)
             THEN Let1(safe_decimal(xb), LAMBDA d :
                     IF d.t # "None" THEN d ELSE PyStr(norm_spaces_punct(xb)))
        ELSE PyStr(norm_spaces_punct(xb))))

(* ------------------------------- tables ------------------------------ *)
\* A sheet read by pd.read_excel(dtype=object) is [columns |-> the header names,
\* data |-> the rows]; a row is the sequence of its cells, aligned with columns.
\* A column is named by its position in columns; 0 is Python's None.

\* the key under which find_col and resolve_col_label look a name up
ColKey(c) == casefold(norm_colname(c))

\* norm_map[key] of find_col: the last column with that key (a dict keeps the
\* last value written), 0 when there is none
LastWithKey(df_cols, key) ==
    LET hits == {i \in 1..Len(df_cols) : ColKey(df_cols[i]) = key}
    IN  IF hits = {} THEN 0 ELSE CHOOSE i \in hits : \A j \in hits : j <= i

\* find_col: the column of the first candidate that names one, else None
RECURSIVE find_col(_, _)
find_col(df_cols, candidate_names) ==
    IF candidate_names = <<>> THEN 0
    ELSE IF LastWithKey(df_cols, ColKey(Head(candidate_names))) # 0
         THEN LastWithKey(df_cols, ColKey(Head(candidate_names)))
         ELSE find_col(df_cols, Tail(candidate_names))

\* df.columns = [norm_colname(c) for c in df.columns]
NormColumns(df) == [df EXCEPT !.columns = [i \in 1..Len(df.columns) |-> norm_colname(df.columns[i])]]

\* uz_field in uzio.columns: the position of a column named exactly so, else 0
ColumnNamed(df, name) ==
    IF \E i \in 1..Len(df.columns) : df.columns[i] = name
    THEN CHOOSE i \in 1..Len(df.columns) : df.columns[i] = name
    ELSE 0

\* _fix of norm_key_series
fix_key(v) ==
    LET v1 == RepBySpace(strip(PyToStr(v)), {NBSP})
    IN  IF IsDigitsDotZeros(v1) THEN BeforeDot(v1) ELSE v1

\* norm_key_series on one cell: a missing cell becomes "" first
norm_key(v) == IF v.t \in {"nan", "None"} THEN <<>> ELSE fix_key(v)

\* df[KEY] = norm_key_series(df[KEY])
NormKeyColumn(df, KEY) ==
    [df EXCEPT !.data = [r \in 1..Len(df.data) |->
        [df.data[r] EXCEPT ![KEY] = PyStr(norm_key(df.data[r][KEY]))]]]

(* --------------------------- mapping sheet --------------------------- *)
WordChars == UpperChars \cup LowerChars \cup DigitChars \cup {"_"}

\* the length of the separator of re.split(r"\(|\)|\bor\b|/|,|;", raw, IGNORECASE)
\* that starts at position i of raw, 0 when none starts there
SepLenAt(raw, i) ==
    IF raw[i] \in {"(", ")", "/", ",", ";"} THEN 1
    ELSE IF /\ i + 1 <= Len(raw)
            /\ casefold(SubSeq(raw, i, i + 1)) = <<"o", "r">>
            /\ (i = 1 \/ raw[i - 1] \notin WordChars)
            /\ (i + 2 > Len(raw) \/ raw[i + 2] \notin WordChars)
         THEN 2
    ELSE 0

\* re.split on those separators: the pieces, empty ones included
RECURSIVE SplitLabel(_, _, _)
SplitLabel(raw, i, piece) ==
    IF i > Len(raw) THEN <<piece>>
    ELSE IF SepLenAt(raw, i) > 0
         THEN <<piece>> \o SplitLabel(raw, i + SepLenAt(raw, i), <<>>)
         ELSE SplitLabel(raw, i + 1, Append(piece, raw[i]))

\* re.split(r"\s[-–]\s", p): the pieces around " - "
RECURSIVE SplitDash(_, _, _)
SplitDash(p, i, piece) ==
    IF i > Len(p) THEN <<piece>>
    ELSE IF i + 2 <= Len(p) /\ IsSpace(p[i]) /\ p[i + 1] = "-" /\ IsSpace(p[i + 2])
         THEN <<piece>> \o SplitDash(p, i + 3, <<>>)
         ELSE SplitDash(p, i + 1, Append(piece, p[i]))

\* [norm_colname(p) for p in pieces if norm_colname(p)]
NormNonEmpty(pieces) ==
    SelectSeq([i \in 1..Len(pieces) |-> norm_colname(pieces[i])], LAMBDA p : p # <<>>)

RECURSIVE FlattenDash(_)
FlattenDash(parts) ==
    IF parts = <<>> THEN <<>>
    ELSE NormNonEmpty(SplitDash(Head(parts), 1, <<>>)) \o FlattenDash(Tail(parts))

\* the first part that names a column, else 0
RECURSIVE FirstPartColumn(_, _)
FirstPartColumn(parts, cols_all) ==
    IF parts = <<>> THEN 0
    ELSE IF LastWithKey(cols_all, ColKey(Head(parts))) # 0
         THEN LastWithKey(cols_all, ColKey(Head(parts)))
         ELSE FirstPartColumn(Tail(parts), cols_all)

\* "fallback contains": cols_norm.items() goes through the keys in the order they were
\* first inserted, each with the last column written under it
ContainsFallback(direct, cols_all) ==
    LET firsts == {i \in 1..Len(cols_all) :
                     /\ \A j \in 1..(i - 1) : ColKey(cols_all[j]) # ColKey(cols_all[i])
                     /\ ColKey(cols_all[i]) # <<>>
                     /\ (Contains(ColKey(cols_all[i]), direct) \/ Contains(direct, ColKey(cols_all[i])))}
    IN  IF firsts = {} THEN 0
        ELSE LastWithKey(cols_all, ColKey(cols_all[CHOOSE i \in firsts : \A j \in firsts : i <= j]))

\* resolve_col_label: the actual column the label names ("" when unresolved)
resolve_col_label(label, cols_all) ==
    LET raw == strip_chars(strip(strip(label)), {","})
        direct == ColKey(raw)
        parts == NormNonEmpty(SplitLabel(raw, 1, <<>>))
        all_parts == parts \o FlattenDash(parts)
        found == IF LastWithKey(cols_all, direct) # 0 THEN LastWithKey(cols_all, direct)
                 ELSE IF FirstPartColumn(all_parts, cols_all) # 0 THEN FirstPartColumn(all_parts, cols_all)
                 ELSE ContainsFallback(direct, cols_all)
    IN  IF raw = <<>> \/ found = 0 THEN <<>> ELSE cols_all[found]

\* the two header columns of the mapping sheet (the last match wins), 0 when absent
MappingHeader(columns, names) ==
    LET hits == {i \in 1..Len(columns) : ColKey(columns[i]) \in names}
    IN  IF hits = {} THEN 0 ELSE CHOOSE i \in hits : \A j \in hits : j <= i

\* Series.map(norm_colname) on a mapping cell: an empty cell is the float NaN, which
\* norm_colname turns into the text "nan"
norm_colname_cell(v) == IF v.t = "None" THEN <<>> ELSE norm_colname(PyToStr(v))

\* read_mapping_sheet up to the resolution of the labels (lines 335-345): rows with
\* both names, the first row of each UZIO name, the Paycom label resolved
MappingEntries(m, uz_col_name, pc_col_name, paycom_cols) ==
    LET named == [r \in 1..Len(m.data) |->
                    [UZIO_Column |-> norm_colname_cell(m.data[r][uz_col_name]),
                     PAYCOM_Label |-> norm_colname_cell(m.data[r][pc_col_name])]]
        kept == {r \in 1..Len(named) :
                    /\ named[r].UZIO_Column # <<>> /\ named[r].PAYCOM_Label # <<>>
                    /\ \A q \in 1..(r - 1) :
                          (named[q].UZIO_Column # <<>> /\ named[q].PAYCOM_Label # <<>>)
                             => named[q].UZIO_Column # named[r].UZIO_Column}
        RECURSIVE Build(_)
        Build(r) ==
            IF r > Len(named) THEN <<>>
            ELSE IF r \in kept
                 THEN <<[UZIO_Column |-> named[r].UZIO_Column,
                         PAYCOM_Label |-> named[r].PAYCOM_Label,
                         PAYCOM_Resolved_Column |-> resolve_col_label(named[r].PAYCOM_Label, paycom_cols)]>>
                      \o Build(r + 1)
                 ELSE Build(r + 1)
    IN  Build(1)

\* the names of the identifier row, which line 348 means to exclude
KeyRowNames == {<<"e", "m", "p", "l", "o", "y", "e", "e", " ", "i", "d">>, <<"e", "m", "p", "l", "o", "y", "e", "e">>, <<"e", "m", "p", "l", "o", "y", "e", "e", "_", "c", "o", "d", "e">>, <<"e", "m", "p", "l", "o", "y", "e", "e", " ", "c", "o", "d", "e">>}

(* --------------------------- record aligner -------------------------- *)
\* set(df_by.index.astype(str)): the identifiers of a table whose key column is normalized
KeySet(df, KEY) == {df.data[r][KEY].s : r \in 1..Len(df.data)}

\* sorted(S) of a set of str
RECURSIVE SortedSeq(_)
SortedSeq(S) ==
    IF S = {} THEN <<>>
    ELSE LET least == CHOOSE a \in S : \A b \in S \ {a} : StrLess(a, b)
         IN  <<least>> \o SortedSeq(S \ {least})

\* all_emp as a left join would build it: the identifiers of the UZIO table alone
AllEmp_uzio_only(uz, UZ_KEY, pcm, PC_KEY) == SortedSeq(KeySet(uz, UZ_KEY) \ {<<>>})

\* all_emp (line 403)
AllEmp(uz, UZ_KEY, pcm, PC_KEY) == SortedSeq((KeySet(uz, UZ_KEY) \cup KeySet(pcm, PC_KEY)) \ {<<>>})

\* a lookup that takes the last of the rows that carry the identifier
RowOf_last(df, KEY, emp) ==
    LET hits == {r \in 1..Len(df.data) : df.data[r][KEY].s = emp}
    IN  IF hits = {} THEN 0 ELSE CHOOSE r \in hits : \A q \in hits : q <= r

\* df_by.loc[emp], the first row taken when several carry the identifier
\* (lines 411-418); 0 is None
RowOf(df, KEY, emp) ==
    LET hits == {r \in 1..Len(df.data) : df.data[r][KEY].s = emp}
    IN  IF hits = {} THEN 0 ELSE CHOOSE r \in hits : \A q \in hits : r <= q

\* str(norm_blank(v) or "").strip()
BlankOrStr(v) ==
    Let1(norm_blank(v), LAMBDA b :
        IF IsEmptyStr(b) \/ (b.t = "int" /\ b.n = 0) THEN <<>> ELSE strip(PyToStr(b)))

\* emp_status_ctx (lines 421-429)
EmpStatusCtx(uz, pcm, uz_row, pc_row) ==
    LET uzio_emp_status_col == find_col(uz.columns, <<c_Employment_Status>>)
        pc_status_col == find_col(pcm.columns, <<c_Employment_Status, c_EmploymentStatus>>)
        ctx == IF uz_row # 0 /\ uzio_emp_status_col # 0 THEN uz.data[uz_row][uzio_emp_status_col]
               ELSE IF pc_row # 0 /\ pc_status_col # 0 THEN pcm.data[pc_row][pc_status_col]
               ELSE EmptyStr
    IN  BlankOrStr(ctx)

\* pay_type_ctx (lines 432-440)
PayTypeCtx(uz, pcm, uz_row, pc_row) ==
    LET uzio_pay_type_col == find_col(uz.columns, <<c_Pay_Type>>)
        pc_pay_type_col == find_col(pcm.columns, <<c_Pay_Type>>)
        pay_type_ctx_raw ==
               IF uz_row # 0 /\ uzio_pay_type_col # 0 THEN uz.data[uz_row][uzio_pay_type_col]
               ELSE IF pc_pay_type_col # 0 /\ pc_row # 0 THEN pcm.data[pc_row][pc_pay_type_col]
               ELSE EmptyStr
    IN  norm_pay_type(pay_type_ctx_raw)

(* -------------------------- status decision -------------------------- *)
statuses == <<"OK", "MISMATCH", "UZIO_MISSING_VALUE", "PAYCOM_MISSING_VALUE",
              "MISSING_IN_UZIO", "MISSING_IN_PAYCOM", "PAYCOM_COLUMN_MISSING", "UZIO_COLUMN_MISSING">>

\* "OK" if u_n == p_n else "MISMATCH" (lines 476, 492, 519-522)
equal_or_mismatch(u_n, p_n) == IF PyEq(u_n, p_n) THEN "OK" ELSE "MISMATCH"

\* the normal compare (lines 499-509, again 526-536 and 541-551)
normal_compare(u_n, p_n) ==
    IF u_n.t \in {"dec", "decnan"} /\ p_n.t \in {"dec", "decnan"}
    THEN IF approx_equal_decimal(u_n, p_n) THEN "OK" ELSE "MISMATCH"
    ELSE IF PyEq(u_n, p_n) \/ (IsEmptyStr(u_n) /\ IsEmptyStr(p_n)) THEN "OK"
    ELSE IF IsEmptyStr(u_n) /\ ~IsEmptyStr(p_n) THEN "UZIO_MISSING_VALUE"
    ELSE IF ~IsEmptyStr(u_n) /\ IsEmptyStr(p_n) THEN "PAYCOM_MISSING_VALUE"
    ELSE "MISMATCH"

\* the value branch without the pay-type rules: every field but the termination reason
\* goes to the normal compare
value_status_no_override(uz_field, uz_val, pc_val, pay_type_ctx) ==
    IF Contains(k_termination_reason, casefold(norm_colname(uz_field)))
    THEN IF termination_reason_equivalent(uz_val, pc_val) THEN "OK"
         ELSE equal_or_mismatch(norm_value_for_field(uz_val, uz_field), norm_value_for_field(pc_val, uz_field))
    ELSE normal_compare(norm_value_for_field(uz_val, uz_field), norm_value_for_field(pc_val, uz_field))

\* the value branch of the decision (lines 465-551): both records and both columns exist
value_status(uz_field, uz_val, pc_val, pay_type_ctx) ==
    Let1(casefold(norm_colname(uz_field)), LAMBDA f_norm :
    Let1(norm_value_for_field(uz_val, uz_field), LAMBDA u_n :
    Let1(norm_value_for_field(pc_val, uz_field), LAMBDA p_n :
        IF Contains(k_termination_reason, f_norm)
        THEN IF termination_reason_equivalent(uz_val, pc_val) THEN "OK"
             ELSE equal_or_mismatch(u_n, p_n)
        ELSE IF pay_type_ctx = k_salary
        THEN IF \/ Contains(k_hourly_pay_rate, f_norm) \/ Contains(k_hourly_rate, f_norm)
                \/ Contains(k_working_hours_per_week, f_norm)
             THEN IF BlankOrStr(uz_val) = <<>> THEN "OK" ELSE equal_or_mismatch(u_n, p_n)
             ELSE normal_compare(u_n, p_n)
        ELSE IF pay_type_ctx = k_hourly
        THEN IF Contains(k_annual_salary, f_norm)
             THEN IF BlankOrStr(uz_val) = <<>> THEN "OK" ELSE equal_or_mismatch(u_n, p_n)
             ELSE normal_compare(u_n, p_n)
        ELSE normal_compare(u_n, p_n))))

\* the decision with the column tests put before the record tests
pair_status_columns_first(emp_in_uzio, emp_in_paycom, pc_col, pc_col_in_paycom, uz_field_in_uzio, uz_field, uz_val, pc_val, pay_type_ctx) ==
    IF pc_col = <<>> \/ ~pc_col_in_paycom THEN "PAYCOM_COLUMN_MISSING"
    ELSE IF ~uz_field_in_uzio THEN "UZIO_COLUMN_MISSING"
    ELSE IF ~emp_in_uzio /\ emp_in_paycom THEN "MISSING_IN_UZIO"
    ELSE IF emp_in_uzio /\ ~emp_in_paycom THEN "MISSING_IN_PAYCOM"
    ELSE value_status(uz_field, uz_val, pc_val, pay_type_ctx)

\* the status of one (employee, mapping entry) pair (lines 455-551)
pair_status(emp_in_uzio, emp_in_paycom, pc_col, pc_col_in_paycom, uz_field_in_uzio, uz_field, uz_val, pc_val, pay_type_ctx) ==
    IF ~emp_in_uzio /\ emp_in_paycom THEN "MISSING_IN_UZIO"
    ELSE IF emp_in_uzio /\ ~emp_in_paycom THEN "MISSING_IN_PAYCOM"
    ELSE IF pc_col = <<>> \/ ~pc_col_in_paycom THEN "PAYCOM_COLUMN_MISSING"
    ELSE IF ~uz_field_in_uzio THEN "UZIO_COLUMN_MISSING"
    ELSE value_status(uz_field, uz_val, pc_val, pay_type_ctx)

\* the detail row of employee emp and mapping entry m (lines 411-562)
DetailRow(uz, UZ_KEY, pcm, PC_KEY, emp, m) ==
    LET uz_row == RowOf(uz, UZ_KEY, emp)
        pc_row == RowOf(pcm, PC_KEY, emp)
        uz_field == m.UZIO_Column
        pc_col == m.PAYCOM_Resolved_Column
        uz_at == ColumnNamed(uz, uz_field)
        pc_at == IF pc_col = <<>> THEN 0 ELSE ColumnNamed(pcm, pc_col)
        uz_val == IF uz_row # 0 /\ uz_at # 0 THEN uz.data[uz_row][uz_at] ELSE EmptyStr
        pc_val == IF pc_row # 0 /\ pc_at # 0 THEN pcm.data[pc_row][pc_at] ELSE EmptyStr
    IN  [Employee |-> emp,
         Field |-> uz_field,
         Employment_Status |-> EmpStatusCtx(uz, pcm, uz_row, pc_row),
         UZIO_Value |-> uz_val,
         PAYCOM_Value |-> pc_val,
         PAYCOM_SourceOfTruth_Status |->
             pair_status(emp \in KeySet(uz, UZ_KEY), emp \in KeySet(pcm, PC_KEY),
                         pc_col, pc_at # 0, uz_at # 0, uz_field, uz_val, pc_val,
                         PayTypeCtx(uz, pcm, uz_row, pc_row))]

(* ------------------------------ the report --------------------------- *)
\* a pivot that counts whether a status occurs for a field, not how often
CountRows_occurs(detail, field, status) ==
    IF \E i \in 1..Len(detail) : detail[i].Field = field /\ detail[i].PAYCOM_SourceOfTruth_Status = status
    THEN 1 ELSE 0

\* aggfunc="count" of the pivot: the rows of a field under a status
RECURSIVE CountRows(_, _, _)
CountRows(detail, field, status) ==
    IF detail = <<>> THEN 0
    ELSE (IF Head(detail).Field = field /\ Head(detail).PAYCOM_SourceOfTruth_Status = status THEN 1 ELSE 0)
         + CountRows(Tail(detail), field, status)

RECURSIVE SumCounts(_, _)
SumCounts(counts, cols) == IF cols = <<>> THEN 0 ELSE counts[Head(cols)] + SumCounts(counts, Tail(cols))

\* field_summary_by_status (lines 577-601): per field of the detail table, the count
\* of rows under each status of the list, and Total, their sum
FieldSummary(detail) ==
    LET fields == {detail[i].Field : i \in 1..Len(detail)}
        cols == {statuses[i] : i \in 1..Len(statuses)}
    IN  [f \in fields |->
            LET counts == [s \in cols |-> CountRows(detail, f, s)]
            IN  [counts |-> counts, Total |-> SumCounts(counts, statuses)]]

\* the scalar summary (lines 604-632)
Summary(uz, UZ_KEY, pcm, PC_KEY, tbl, detail) ==
    LET uzio_emp == KeySet(uz, UZ_KEY)
        pc_emp == KeySet(pcm, PC_KEY)
    IN  [Total_UZIO_Employees |-> Cardinality(uzio_emp),
         Total_Paycom_Employees |-> Cardinality(pc_emp),
         Employees_in_both |-> Cardinality(uzio_emp \cap pc_emp),
         Employees_only_in_UZIO |-> Cardinality(uzio_emp \ pc_emp),
         Employees_only_in_Paycom |-> Cardinality(pc_emp \ uzio_emp),
         Total_UZIO_Records |-> Len(uz.data),
         Total_Paycom_Records |-> Len(pcm.data),
         Fields_Compared |-> Len(tbl),
         Total_Comparisons |-> Len(detail)]

(* ------------------------------ workbooks ---------------------------- *)
\* The workbooks the model runs on.  MaxRows bounds the rows of a table of the
\* table family.
MaxRows == 2

Sheet(cols, data) == [columns |-> cols, data |-> data]
S(str) == PyStr(str)

RECURSIVE SeqsUpTo(_, _)
SeqsUpTo(set, n) ==
    IF n = 0 THEN {<<>>}
    ELSE SeqsUpTo(set, n - 1) \cup {Append(q, x) : q \in {p \in SeqsUpTo(set, n - 1) : Len(p) = n - 1}, x \in set}

\* Pair family: one identifier, one mapped field, the cells of that field drawn
\* from the values below.
PairFields == {c_Annual_Salary, c_Hourly_Pay_Rate, c_Working_Hours, c_Termination_Reason, c_Pay_Type,
               c_Employment_Status, c_Suffix, c_Zip_Code, c_Phone, c_Middle_Initial,
               c_Employment_Type, c_First_Name, c_Hire_Date}

CellValues(field) ==
    IF field = c_Annual_Salary THEN {PyNaN, S(v_50000), S(v_50000_00), S(v_62000), PyInt(62000), PyInt(0)}
    ELSE IF field = c_Hourly_Pay_Rate THEN {PyNaN, S(v_25_5), S(v_40), PyInt(0)}
    ELSE IF field = c_Working_Hours THEN {PyNaN, S(v_40), PyInt(40), S(v_25_5)}
    ELSE IF field = c_Termination_Reason
         THEN {PyNaN, S(v_Voluntary), S(v_Invol_Term), S(v_Vol_Term), S(v_Vol_Resig),
               S(v_Attendance), S(v_Other), S(v_Retired)}
    ELSE IF field = c_Pay_Type THEN {PyNaN, S(v_Hourly), S(v_Salaried), S(v_Salary)}
    ELSE IF field = c_Employment_Status THEN {PyNaN, S(v_Active), S(v_On_Leave)}
    ELSE IF field = c_Suffix THEN {PyNaN, S(v_Jr_dot), S(v_JR), S(v_nan_dot)}
    ELSE IF field = c_Zip_Code THEN {PyNaN, S(v_9810_1), S(v_098101), S(v_98101), PyInt(98101)}
    ELSE IF field = c_Phone THEN {PyNaN, S(v_phone_a), S(v_phone_b)}
    ELSE IF field = c_Middle_Initial THEN {PyNaN, S(v_Ann), S(v_A), S(v_B_dot)}
    ELSE IF field = c_Employment_Type THEN {PyNaN, S(v_Full_Time), S(v_Full_Time_sp)}
    ELSE IF field = c_Hire_Date THEN {PyNaN, S(v_date_us), S(v_date_iso), S(v_pending)}
    ELSE {PyNaN, S(v_Ann), S(v_x)}

PayTypeCells == {PyNaN, S(v_Hourly), S(v_Salaried)}

\* the UZIO and Paycom sheets of a pair workbook: the field's column is there or not,
\* the employee's row is there or not
PairUzio(field, has_col, has_row, pay, val) ==
    LET own == field \in {c_Pay_Type, c_Employment_Status}
        cols == <<c_Employee_ID, c_Employment_Status, c_Pay_Type>>
                \o (IF has_col /\ ~own THEN <<field>> ELSE <<>>)
        row == <<S(v_100), IF field = c_Employment_Status THEN val ELSE S(v_Active),
                 IF field = c_Pay_Type THEN val ELSE pay>>
               \o (IF has_col /\ ~own THEN <<val>> ELSE <<>>)
    IN  Sheet(cols, IF has_row THEN <<row>> ELSE <<>>)

PairPaycom(field, has_row, val) ==
    Sheet(<<c_Employee_Code_us, field>>, IF has_row THEN <<<<S(v_100), val>>>> ELSE <<>>)

PairMapping(field, label) ==
    Sheet(<<c_UZIO_Column, c_Paycom_Column>>, <<<<S(field), S(label)>>>>)

PairWorkbooks ==
    UNION {{[uzio |-> PairUzio(f, uc, present[1], pay, uv),
             paycom |-> PairPaycom(f, present[2], pv),
             mapping |-> PairMapping(f, label)] :
               uc \in BOOLEAN, present \in {<<TRUE, TRUE>>, <<TRUE, FALSE>>, <<FALSE, TRUE>>},
               pay \in PayTypeCells, uv \in CellValues(f), pv \in CellValues(f), label \in {f, c_Unlisted}} :
           f \in PairFields}

\* Table family: up to MaxRows rows a table, identifiers that merge ("7", " 7.0"),
\* one that sorts before them as text ("12") and an empty cell; the name cell of a
\* UZIO row tells the rows apart (odd rows "x", even rows "y"), Paycom rows say "x".
TableKeys == {S(v_7), S(v_7_0), S(v_12), PyNaN}

TableUzio(keys) ==
    Sheet(<<c_Employee_ID, c_Employment_Status, c_Pay_Type, c_First_Name, c_Suffix>>,
          [r \in 1..Len(keys) |->
              <<keys[r], S(v_Active), PyNaN, IF r % 2 = 1 THEN S(v_x) ELSE S(v_y), S(v_Jr_dot)>>])

TablePaycom(keys) ==
    Sheet(<<c_Employee_Code_us, c_First_Name, c_Suffix>>,
          [r \in 1..Len(keys) |-> <<keys[r], S(v_x), S(v_JR)>>])

TableMappings ==
    {Sheet(<<c_UZIO_Column, c_Paycom_Column>>, <<>>),
     Sheet(<<c_UZIO_Column, c_Paycom_Column>>, <<<<S(c_First_Name), S(c_First_Name)>>>>),
     Sheet(<<c_Uzio_Coloumn, c_Notes, c_Paycom_Coloumn>>,
           <<<<S(c_Employee_ID), PyNaN, S(c_Employee_Code_us)>>,
             <<S(c_First_Name), PyNaN, S(c_Name_or_First)>>,
             <<S(c_Suffix), S(v_x), S(c_Unlisted)>>,
             <<S(c_Hire_Date), PyNaN, S(c_First_Name)>>>>),
     Sheet(<<c_UZIO_Column, c_Paycom_Column>>,
           <<<<S(c_First_Name), S(c_First_Name)>>,
             <<PyNaN, S(c_Suffix)>>,
             <<S(c_First_Name), S(c_Suffix)>>>>)}

TableWorkbooks ==
    {[uzio |-> TableUzio(uk), paycom |-> TablePaycom(pk), mapping |-> m] :
        uk \in SeqsUpTo(TableKeys, MaxRows), pk \in SeqsUpTo(TableKeys, MaxRows), m \in TableMappings}

\* Workbooks with odd or missing headers.
OddUzio ==
    {Sheet(<<c_employee_id_star, c_Pay_Type>>, <<<<S(v_7_0), S(v_Hourly)>>>>),
     Sheet(<<c_Employee_Code, c_First_Name>>, <<<<PyInt(12), S(v_x)>>>>),
     Sheet(<<c_Name, c_Pay_Type>>, <<<<S(v_x), S(v_Hourly)>>>>)}
OddPaycom ==
    {Sheet(<<c_Employee_Code_us, c_First_Name>>, <<<<S(v_7), S(v_x)>>>>),
     Sheet(<<c_EmployeeID, c_Pay_Type>>, <<<<PyInt(7), S(v_Salary)>>>>),
     Sheet(<<c_Badge, c_First_Name>>, <<<<S(v_7), S(v_x)>>>>)}
OddMapping ==
    {Sheet(<<c_UZIO_Column, c_Paycom_Column>>,
           <<<<S(c_Employee_ID), S(c_Employee_Code_us)>>, <<S(c_First_Name), S(c_First_Name)>>>>),
     Sheet(<<c_UZIO_Column, c_Paycom_Column>>, <<<<S(c_First_Name), S(c_First_Name)>>>>),
     Sheet(<<c_UZIO_Column, c_Notes>>,
           <<<<S(c_Employee_ID), S(c_Employee_Code_us)>>, <<S(c_First_Name), S(c_First_Name)>>>>),
     Sheet(<<c_Field, c_Paycom_Coloumn>>,
           <<<<S(c_Employee_ID), S(c_Employee_Code_us)>>, <<S(c_First_Name), S(c_First_Name)>>>>)}
OddWorkbooks == {[uzio |-> u, paycom |-> p, mapping |-> m] : u \in OddUzio, p \in OddPaycom, m \in OddMapping}

Workbooks == PairWorkbooks \cup TableWorkbooks \cup OddWorkbooks

(* ------------------------------- the run ----------------------------- *)
VARIABLES
    pc,                       \* where run_comparison stands
    uzio, paycom, mapping,    \* the three sheets
    UZIO_KEY, PAYCOM_KEY,     \* the key columns (0: None)
    map_tbl_valid,            \* the mapping entries compared
    all_emp,                  \* the identifiers iterated
    emp_i, map_i,             \* the position of the two loops
    rows,                     \* the detail rows appended so far
    field_summary_by_status,  \* the per-field pivot
    summary,                  \* the scalar summary
    error,                    \* the message of the exception that ended the run ("" if none)
    norm_field, norm_value,   \* a field name and a value handed to norm_value_for_field
    once, twice,              \* its result, and its result on that result
    npc                       \* how often it has been applied

run_vars == <<pc, uzio, paycom, mapping, UZIO_KEY, PAYCOM_KEY, map_tbl_valid, all_emp, emp_i, map_i,
              rows, field_summary_by_status, summary, error>>
norm_vars == <<norm_field, norm_value, once, twice, npc>>
vars == <<run_vars, norm_vars>>

NoSummary == [Fields_Compared |-> 0, Total_Comparisons |-> 0]

NormIdle == norm_field = <<>> /\ norm_value = EmptyStr /\ once = EmptyStr /\ twice = EmptyStr /\ npc = "idle"

\* run_comparison is handed the bytes of a workbook
Init ==
    /\ \E wb \in Workbooks : uzio = wb.uzio /\ paycom = wb.paycom /\ mapping = wb.mapping
    /\ pc = "start"
    /\ UZIO_KEY = 0 /\ PAYCOM_KEY = 0
    /\ map_tbl_valid = <<>> /\ all_emp = <<>> /\ emp_i = 1 /\ map_i = 1 /\ rows = <<>>
    /\ field_summary_by_status = <<>> /\ summary = NoSummary /\ error = ""
    /\ NormIdle

UzioKeyNames == <<c_Employee_ID, c_EmployeeID, c_Employee, c_Employee_Code, c_Employee_Code_us>>
PaycomKeyNames == <<c_Employee_Code_us, c_Employee_Code, c_Employee_ID, c_Employee, c_EmployeeID>>

ERR_UZIO_KEY == "UZIO key column not found (expected 'Employee ID' / 'Employee')."
ERR_PAYCOM_KEY == "Paycom key column not found (expected 'Employee_Code' / 'Employee ID' / 'Employee')."
ERR_MAPPING_COLUMNS == "Mapping Sheet must contain columns: 'UZIO Column' and 'Paycom Column'."
\* bool() of the Series that line 348 compares with each name of the list
ERR_SERIES_TRUTH == "The truth value of a Series is ambiguous."

\* lines 355-377: the sheets are read, their headers normalized, the key columns
\* found (or the run raises) and the keys normalized
LoadSheets ==
    /\ pc = "start"
    /\ LET uz == NormColumns(uzio)
           pcm == NormColumns(paycom)
           uk == find_col(uz.columns, UzioKeyNames)
           pk == find_col(pcm.columns, PaycomKeyNames)
       IN  /\ mapping' = NormColumns(mapping)
           /\ UZIO_KEY' = uk
           /\ PAYCOM_KEY' = IF uk = 0 THEN 0 ELSE pk
           /\ uzio' = IF uk = 0 \/ pk = 0 THEN uz ELSE NormKeyColumn(uz, uk)
           /\ paycom' = IF uk = 0 \/ pk = 0 THEN pcm ELSE NormKeyColumn(pcm, pk)
           /\ error' = IF uk = 0 THEN ERR_UZIO_KEY ELSE IF pk = 0 THEN ERR_PAYCOM_KEY ELSE ""
           /\ pc' = IF uk = 0 \/ pk = 0 THEN "raised" ELSE "loaded"
    /\ UNCHANGED <<map_tbl_valid, all_emp, emp_i, map_i, rows, field_summary_by_status, summary>>
    /\ UNCHANGED norm_vars

\* the header columns read_mapping_sheet looks for (lines 323-330)
UzColName(m) == MappingHeader(m.columns, {<<"u", "z", "i", "o", " ", "c", "o", "l", "o", "u", "m", "n">>, <<"u", "z", "i", "o", " ", "c", "o", "l", "u", "m", "n">>})
PcColName(m) == MappingHeader(m.columns, {<<"p", "a", "y", "c", "o", "m", " ", "c", "o", "l", "o", "u", "m", "n">>, <<"p", "a", "y", "c", "o", "m", " ", "c", "o", "l", "u", "m", "n">>})

\* lines 382-394, read_mapping_sheet (lines 319-351): without the two header columns
\* it raises; with them it builds the entries and then, at line 348, asks whether a
\* Series is "not in" a list, which raises for every Series: nothing is returned
ReadMapping ==
    /\ pc = "loaded"
    /\ error' = IF UzColName(mapping) = 0 \/ PcColName(mapping) = 0
                THEN ERR_MAPPING_COLUMNS ELSE ERR_SERIES_TRUTH
    /\ pc' = "raised"
    /\ UNCHANGED <<uzio, paycom, mapping, UZIO_KEY, PAYCOM_KEY, map_tbl_valid, all_emp, emp_i, map_i,
                   rows, field_summary_by_status, summary>>
    /\ UNCHANGED norm_vars

NextLoad == LoadSheets \/ ReadMapping

\* the run as it is coded
Spec == Init /\ [][NextLoad]_vars

(* ------------------------ the comparison loop ------------------------ *)
\* The state in which the loop is entered (line 397): the sheets loaded as LoadSheets
\* does, map_tbl_valid the entries lines 335-345 build.
InitCompare ==
    /\ \E wb \in PairWorkbooks \cup TableWorkbooks :
          LET uz == NormColumns(wb.uzio)
              pcm == NormColumns(wb.paycom)
              m == NormColumns(wb.mapping)
              uk == find_col(uz.columns, UzioKeyNames)
              pk == find_col(pcm.columns, PaycomKeyNames)
          IN  /\ uzio = NormKeyColumn(uz, uk)
              /\ paycom = NormKeyColumn(pcm, pk)
              /\ mapping = m
              /\ UZIO_KEY = uk /\ PAYCOM_KEY = pk
              /\ map_tbl_valid = MappingEntries(m, UzColName(m), PcColName(m), pcm.columns)
    /\ pc = "mapped"
    /\ all_emp = <<>> /\ emp_i = 1 /\ map_i = 1 /\ rows = <<>>
    /\ field_summary_by_status = <<>> /\ summary = NoSummary /\ error = ""
    /\ NormIdle

\* lines 399-407: the identifiers to iterate
Align ==
    /\ pc = "mapped"
    /\ all_emp' = AllEmp(uzio, UZIO_KEY, paycom, PAYCOM_KEY)
    /\ pc' = "loop"
    /\ UNCHANGED <<uzio, paycom, mapping, UZIO_KEY, PAYCOM_KEY, map_tbl_valid, emp_i, map_i, rows,
                   field_summary_by_status, summary, error>>
    /\ UNCHANGED norm_vars

\* one turn of the inner loop (lines 442-562): the row of employee all_emp[emp_i] and
\* mapping entry map_tbl_valid[map_i] is appended
Compare ==
    /\ pc = "loop"
    /\ emp_i <= Len(all_emp) /\ map_i <= Len(map_tbl_valid)
    /\ rows' = Append(rows, DetailRow(uzio, UZIO_KEY, paycom, PAYCOM_KEY, all_emp[emp_i], map_tbl_valid[map_i]))
    /\ IF map_i < Len(map_tbl_valid)
       THEN map_i' = map_i + 1 /\ emp_i' = emp_i
       ELSE map_i' = 1 /\ emp_i' = emp_i + 1
    /\ UNCHANGED <<pc, uzio, paycom, mapping, UZIO_KEY, PAYCOM_KEY, map_tbl_valid, all_emp,
                   field_summary_by_status, summary, error>>
    /\ UNCHANGED norm_vars

\* lines 564-640: the loops are over; the pivot and the summary are built and the
\* three sheets written
Report ==
    /\ pc = "loop"
    /\ emp_i > Len(all_emp) \/ Len(map_tbl_valid) = 0
    /\ field_summary_by_status' = FieldSummary(rows)
    /\ summary' = Summary(uzio, UZIO_KEY, paycom, PAYCOM_KEY, map_tbl_valid, rows)
    /\ pc' = "done"
    /\ UNCHANGED <<uzio, paycom, mapping, UZIO_KEY, PAYCOM_KEY, map_tbl_valid, all_emp, emp_i, map_i,
                   rows, error>>
    /\ UNCHANGED norm_vars

NextCompare == Align \/ Compare \/ Report

SpecCompare == InitCompare /\ [][NextCompare]_vars

(* --------------------- norm_value_for_field, twice -------------------- *)
\* MaxLen bounds the length of the strings handed to norm_value_for_field.
MaxLen == 4

NormAlphabet == {"n", "a", ".", "1", "-", " "}

\* one field name of each class of norm_value_for_field (lines 278-316)
NormFields == {c_Phone, c_Zip_Code, c_Hire_Date, c_Middle_Initial, c_Suffix, c_Employment_Type,
               c_Pay_Type, c_Employment_Status, c_Annual_Salary, c_First_Name}

\* the values handed in: every string over NormAlphabet up to MaxLen, an empty cell
\* and two numbers; for a date field the two date shapes, a word that is no date and
\* an empty cell
NormValues(field) ==
    IF AnyIn(DATE_KEYWORDS, casefold(norm_colname(field)))
    THEN {PyNaN, S(v_date_us), S(v_date_iso), S(v_pending)}
    ELSE {S(str) : str \in SeqsUpTo(NormAlphabet, MaxLen)} \cup {PyNaN, PyInt(0), PyInt(40)}

InitNorm ==
    /\ \E field \in NormFields : \E value \in NormValues(field) :
          norm_field = field /\ norm_value = value
    /\ once = EmptyStr /\ twice = EmptyStr /\ npc = "start"
    /\ pc = "idle"
    /\ uzio = Sheet(<<>>, <<>>) /\ paycom = Sheet(<<>>, <<>>) /\ mapping = Sheet(<<>>, <<>>)
    /\ UZIO_KEY = 0 /\ PAYCOM_KEY = 0
    /\ map_tbl_valid = <<>> /\ all_emp = <<>> /\ emp_i = 1 /\ map_i = 1 /\ rows = <<>>
    /\ field_summary_by_status = <<>> /\ summary = NoSummary /\ error = ""

\* norm_value_for_field(v, f)
ApplyOnce ==
    /\ npc = "start"
    /\ once' = norm_value_for_field(norm_value, norm_field)
    /\ npc' = "once"
    /\ UNCHANGED <<norm_field, norm_value, twice>>
    /\ UNCHANGED run_vars

\* norm_value_for_field(norm_value_for_field(v, f), f)
ApplyTwice ==
    /\ npc = "once"
    /\ twice' = norm_value_for_field(once, norm_field)
    /\ npc' = "twice"
    /\ UNCHANGED <<norm_field, norm_value, once>>
    /\ UNCHANGED run_vars

NextNorm == ApplyOnce \/ ApplyTwice

SpecNorm == InitNorm /\ [][NextNorm]_vars

(* ============================ the properties =========================== *)
RowIndex == 1..Len(rows)
Status(r) == r.PAYCOM_SourceOfTruth_Status

InUzio(emp) == emp \in KeySet(uzio, UZIO_KEY)
InPaycom(emp) == emp \in KeySet(paycom, PAYCOM_KEY)

\* the mapping entry a detail row was made from (UZIO names are unique in map_tbl_valid)
EntryFor(field) ==
    map_tbl_valid[CHOOSE j \in 1..Len(map_tbl_valid) : map_tbl_valid[j].UZIO_Column = field]

PaycomColumnExists(m) ==
    m.PAYCOM_Resolved_Column # <<>> /\ ColumnNamed(paycom, m.PAYCOM_Resolved_Column) # 0
UzioColumnExists(m) == ColumnNamed(uzio, m.UZIO_Column) # 0

\* the employee is in both tables and both columns of the field exist
Compared(r) ==
    /\ InUzio(r.Employee) /\ InPaycom(r.Employee)
    /\ PaycomColumnExists(EntryFor(r.Field)) /\ UzioColumnExists(EntryFor(r.Field))

FieldKey(r) == casefold(norm_colname(r.Field))
RowPayType(r) ==
    PayTypeCtx(uzio, paycom, RowOf(uzio, UZIO_KEY, r.Employee), RowOf(paycom, PAYCOM_KEY, r.Employee))
CanonUzio(r) == norm_value_for_field(r.UZIO_Value, r.Field)
CanonPaycom(r) == norm_value_for_field(r.PAYCOM_Value, r.Field)

IsTerminationField(r) == Contains(k_termination_reason, FieldKey(r))
\* the fields the pay-type rules name, for the pay type of the row's employee
IsPayTypeField(r) ==
    /\ ~IsTerminationField(r)
    /\ \/ RowPayType(r) = k_hourly /\ Contains(k_annual_salary, FieldKey(r))
       \/ /\ RowPayType(r) = k_salary
          /\ \/ Contains(k_hourly_pay_rate, FieldKey(r)) \/ Contains(k_hourly_rate, FieldKey(r))
             \/ Contains(k_working_hours_per_week, FieldKey(r))

\* the generic comparison of two canonical values
GenericStatus(u_n, p_n) ==
    IF IsEmptyStr(u_n) /\ IsEmptyStr(p_n) THEN "OK"
    ELSE IF PyEq(u_n, p_n) THEN "OK"
    ELSE IF IsEmptyStr(u_n) THEN "UZIO_MISSING_VALUE"
    ELSE IF IsEmptyStr(p_n) THEN "PAYCOM_MISSING_VALUE"
    ELSE "MISMATCH"

(* C1: every detail row of an employee whose identifier is in exactly one of the two
   tables has status MISSING_IN_PAYCOM when the employee is only in the UZIO table
   and MISSING_IN_UZIO when only in the Paycom table, whatever the field, its
   columns and the cell values are. *)
C1_MissingRecord ==
    \A i \in RowIndex :
        /\ (InUzio(rows[i].Employee) /\ ~InPaycom(rows[i].Employee))
              => Status(rows[i]) = "MISSING_IN_PAYCOM"
        /\ (~InUzio(rows[i].Employee) /\ InPaycom(rows[i].Employee))
              => Status(rows[i]) = "MISSING_IN_UZIO"

\* a UZIO-only employee's row for a field whose Paycom column is unresolved, and a
\* Paycom-only employee's row for a field the UZIO table has no column for
C1_Witness ==
    /\ \E i \in RowIndex :
          /\ InUzio(rows[i].Employee) /\ ~InPaycom(rows[i].Employee)
          /\ ~PaycomColumnExists(EntryFor(rows[i].Field))
          /\ Status(rows[i]) = "MISSING_IN_PAYCOM"
    /\ \E i \in RowIndex :
          /\ ~InUzio(rows[i].Employee) /\ InPaycom(rows[i].Employee)
          /\ ~UzioColumnExists(EntryFor(rows[i].Field))
          /\ Status(rows[i]) = "MISSING_IN_UZIO"

\* the employees aligned: the non-empty normalized identifiers of either table
Aligned ==
    ({uzio.data[r][UZIO_KEY].s : r \in 1..Len(uzio.data)}
        \cup {paycom.data[r][PAYCOM_KEY].s : r \in 1..Len(paycom.data)}) \ {<<>>}
MappedFields == {map_tbl_valid[j].UZIO_Column : j \in 1..Len(map_tbl_valid)}
EightStatuses == {"OK", "MISMATCH", "UZIO_MISSING_VALUE", "PAYCOM_MISSING_VALUE",
                  "MISSING_IN_UZIO", "MISSING_IN_PAYCOM", "PAYCOM_COLUMN_MISSING", "UZIO_COLUMN_MISSING"}

(* C2: when the run is done, the detail table holds one row for each pair of an
   aligned employee and a mapped field, no pair twice and none missing (as many rows
   as employees times fields), and every row has one of the eight statuses. *)
C2_CrossProduct ==
    pc = "done" =>
        /\ Len(rows) = Cardinality(Aligned) * Len(map_tbl_valid)
        /\ {<<rows[i].Employee, rows[i].Field>> : i \in RowIndex} = Aligned \X MappedFields
        /\ \A i, j \in RowIndex :
              (rows[i].Employee = rows[j].Employee /\ rows[i].Field = rows[j].Field) => i = j
        /\ \A i \in RowIndex : Status(rows[i]) \in EightStatuses

\* a finished run over an employee of each table alone and several fields
C2_Witness ==
    /\ pc = "done"
    /\ Cardinality(Aligned) >= 2 /\ Len(map_tbl_valid) >= 3
    /\ \E e \in Aligned : InUzio(e) /\ ~InPaycom(e)
    /\ \E e \in Aligned : ~InUzio(e) /\ InPaycom(e)
    /\ Len(rows) = Cardinality(Aligned) * Len(map_tbl_valid)

(* C3, as stated: for an employee in both tables with both columns present, a field
   the pay-type rules name for the employee's pay type (annual salary when hourly;
   hourly rate, hourly pay rate or working hours per week when salaried) has status
   OK whatever the two values are. *)
C3_AsStated ==
    \A i \in RowIndex :
        (Compared(rows[i]) /\ IsPayTypeField(rows[i])) => Status(rows[i]) = "OK"

(* C3, amended: for such a field the status is OK when the UZIO value is blank
   (empty, a blank word or zero), whatever the Paycom value is; when the UZIO value is
   not blank, the status is OK if the two canonical values are equal and MISMATCH
   otherwise. *)
C3_PayTypeRule ==
    \A i \in RowIndex :
        (Compared(rows[i]) /\ IsPayTypeField(rows[i])) =>
            Status(rows[i]) =
                IF BlankOrStr(rows[i].UZIO_Value) = <<>> THEN "OK"
                ELSE IF PyEq(CanonUzio(rows[i]), CanonPaycom(rows[i])) THEN "OK"
                ELSE "MISMATCH"

\* an hourly employee's annual salary, blank in UZIO and filled in Paycom, is OK, and
\* a salaried employee's hourly rate, filled and different on the two sides, is not
C3_Witness ==
    \E i \in RowIndex :
        /\ Compared(rows[i]) /\ IsPayTypeField(rows[i])
        /\ \/ /\ RowPayType(rows[i]) = k_hourly
              /\ BlankOrStr(rows[i].UZIO_Value) = <<>>
              /\ ~IsEmptyStr(CanonPaycom(rows[i]))
              /\ Status(rows[i]) = "OK"
           \/ /\ RowPayType(rows[i]) = k_salary
              /\ BlankOrStr(rows[i].UZIO_Value) # <<>>
              /\ ~IsEmptyStr(CanonPaycom(rows[i]))
              /\ Status(rows[i]) = "MISMATCH"

HasVoluntary(v) == Contains(k_voluntary, norm_termination_reason(v))
HasInvoluntary(v) == Contains(k_involuntary, norm_termination_reason(v))
OnlyVoluntary(v) == HasVoluntary(v) /\ ~HasInvoluntary(v)

(* C4: for a termination-reason field of an employee in both tables with both
   columns, a pair of values of which one contains "involuntary" and the other
   contains "voluntary" but not "involuntary" does not get OK, and a pair of which
   both contain "voluntary" and neither "involuntary" gets OK. *)
C4_VoluntaryRule ==
    \A i \in RowIndex :
        (Compared(rows[i]) /\ IsTerminationField(rows[i])) =>
            /\ (\/ HasInvoluntary(rows[i].PAYCOM_Value) /\ OnlyVoluntary(rows[i].UZIO_Value)
                \/ HasInvoluntary(rows[i].UZIO_Value) /\ OnlyVoluntary(rows[i].PAYCOM_Value))
                  => Status(rows[i]) # "OK"
            /\ (OnlyVoluntary(rows[i].UZIO_Value) /\ OnlyVoluntary(rows[i].PAYCOM_Value))
                  => Status(rows[i]) = "OK"

(* C5: for a termination-reason field of an employee in both tables with both
   columns, Paycom "Attendance Violation" against UZIO "Other" gets OK (the reason
   bucket of the phrase allows "other"). *)
C5_ReasonBucket ==
    \A i \in RowIndex :
        (/\ Compared(rows[i]) /\ IsTerminationField(rows[i])
         /\ norm_termination_reason(rows[i].PAYCOM_Value) = norm_termination_reason(S(v_Attendance))
         /\ norm_termination_reason(rows[i].UZIO_Value) = norm_termination_reason(S(v_Other)))
            => Status(rows[i]) = "OK"

\* a rule has forced OK: the keyword rule of a termination reason, or a pay-type
\* field whose UZIO value is blank
ForcedOK(r) ==
    IF IsTerminationField(r) THEN termination_reason_equivalent(r.UZIO_Value, r.PAYCOM_Value)
    ELSE IsPayTypeField(r) /\ BlankOrStr(r.UZIO_Value) = <<>>

(* C6: for an employee in both tables and a field with both columns, when no rule
   has forced OK the status is the generic comparison of the two canonical values:
   both empty or equal OK, UZIO empty UZIO_MISSING_VALUE, Paycom empty
   PAYCOM_MISSING_VALUE, otherwise MISMATCH; so MISMATCH is never given when
   exactly one canonical value is empty. *)
C6_GenericComparison ==
    \A i \in RowIndex :
        (Compared(rows[i]) /\ ~ForcedOK(rows[i])) =>
            Status(rows[i]) = GenericStatus(CanonUzio(rows[i]), CanonPaycom(rows[i]))

\* the entries lines 335-345 build from the mapping sheet of the run
EntriesOfRun ==
    LET m == NormColumns(mapping)
    IN  IF UzColName(m) = 0 \/ PcColName(m) = 0 THEN <<>>
        ELSE MappingEntries(m, UzColName(m), PcColName(m), NormColumns(paycom).columns)
IsKeyEntry(m) == ColKey(m.UZIO_Column) \in KeyRowNames
HasMappingHeaders == UzColName(NormColumns(mapping)) # 0 /\ PcColName(NormColumns(mapping)) # 0
HasUzioKey == find_col(NormColumns(uzio).columns, UzioKeyNames) # 0
HasPaycomKey == find_col(NormColumns(paycom).columns, PaycomKeyNames) # 0

(* C7: a run on a workbook whose tables have their identifier columns and whose
   mapping sheet has both mapping columns, the identifier row and other field rows
   does not end in an exception (the loader returns the entries without the
   identifier row and the run goes on to the detail table). *)
C7_IdentifierRowFiltered ==
    (/\ HasUzioKey /\ HasPaycomKey /\ HasMappingHeaders
     /\ \E j \in 1..Len(EntriesOfRun) : IsKeyEntry(EntriesOfRun[j])
     /\ \E j \in 1..Len(EntriesOfRun) : ~IsKeyEntry(EntriesOfRun[j]))
        => pc # "raised"

ConfigurationErrors == {ERR_UZIO_KEY, ERR_PAYCOM_KEY, ERR_MAPPING_COLUMNS}

(* C8: when the mapping sheet lacks one of the two mapping columns, or holds no
   identifier row, or the UZIO table or the Paycom table has no identifier column,
   the run that has ended has ended in a configuration error, without a report. *)
C8_ConfigurationError ==
    (/\ pc \notin {"start", "loaded"}
     /\ \/ ~HasMappingHeaders
        \/ ~HasUzioKey
        \/ ~HasPaycomKey
        \/ \A j \in 1..Len(EntriesOfRun) : ~IsKeyEntry(EntriesOfRun[j]))
        => (pc = "raised" /\ error \in ConfigurationErrors)

(* C9: in the field summary of a finished run, the fields are those of the detail
   rows, and for every field Total is the number of detail rows of the field, which
   is also the sum of the field's eight status counts. *)
C9_FieldTotals ==
    pc = "done" =>
        /\ DOMAIN field_summary_by_status = {rows[i].Field : i \in RowIndex}
        /\ \A f \in DOMAIN field_summary_by_status :
              LET c == field_summary_by_status[f].counts
              IN  /\ field_summary_by_status[f].Total = Cardinality({i \in RowIndex : rows[i].Field = f})
                  /\ field_summary_by_status[f].Total =
                        c["OK"] + c["MISMATCH"] + c["UZIO_MISSING_VALUE"] + c["PAYCOM_MISSING_VALUE"]
                        + c["MISSING_IN_UZIO"] + c["MISSING_IN_PAYCOM"]
                        + c["PAYCOM_COLUMN_MISSING"] + c["UZIO_COLUMN_MISSING"]

\* a field with two rows under one status, and a field with rows under two statuses
C9_Witness ==
    /\ pc = "done"
    /\ \E f \in DOMAIN field_summary_by_status : \E s \in EightStatuses :
          field_summary_by_status[f].counts[s] >= 2
    /\ \E f \in DOMAIN field_summary_by_status : \E s, t \in EightStatuses :
          /\ s # t
          /\ field_summary_by_status[f].counts[s] >= 1
          /\ field_summary_by_status[f].counts[t] >= 1

(* C10: norm_value_for_field applied to its own result, for the same field, gives a
   value equal to that result. *)
C10_Idempotent == npc = "twice" => PyEq(twice, once)

\* the rows of employee "100" and field "Zip Code" with UZIO "9810-1" and Paycom
\* "098101", the employee in both tables and both columns there
IsZipScenario(r) ==
    /\ r.Employee = v_100 /\ r.Field = c_Zip_Code
    /\ Compared(r)
    /\ r.UZIO_Value = S(v_9810_1) /\ r.PAYCOM_Value = S(v_098101)

(* C11, as stated: for the postal-code field "Zip Code" of employee "100", present in
   both tables, UZIO "9810-1" and Paycom "098101" have the same canonical value and
   the row has status OK. *)
C11_AsStated ==
    \A i \in RowIndex :
        IsZipScenario(rows[i]) =>
            /\ CanonUzio(rows[i]) = CanonPaycom(rows[i])
            /\ Status(rows[i]) = "OK"

(* C11, amended: digits only, left-padded with zeros to five and cut to the first
   five, UZIO "9810-1" is "98101" and Paycom "098101" is "09810"; the two differ and
   the row has status MISMATCH. *)
C11_ZipFirstFive ==
    \A i \in RowIndex :
        IsZipScenario(rows[i]) =>
            /\ CanonUzio(rows[i]) = PyStr(<<"9", "8", "1", "0", "1">>)
            /\ CanonPaycom(rows[i]) = PyStr(<<"0", "9", "8", "1", "0">>)
            /\ Status(rows[i]) = "MISMATCH"

\* the row of the scenario has been emitted
C11_Witness == \E i \in RowIndex : IsZipScenario(rows[i]) /\ Status(rows[i]) = "MISMATCH"

\* the rows of a table that carry the identifier, in table order
RowsWithKey(df, KEY, emp) == {r \in 1..Len(df.data) : df.data[r][KEY].s = emp}
\* the cell a detail row must show: that of the first row with the identifier, under
\* the column of the field, "" when the row or the column is not there
FirstRowCell(df, KEY, emp, col) ==
    IF RowsWithKey(df, KEY, emp) = {} \/ col = 0 THEN EmptyStr
    ELSE df.data[CHOOSE r \in RowsWithKey(df, KEY, emp) : \A q \in RowsWithKey(df, KEY, emp) : r <= q][col]
PaycomColumnOf(m) ==
    IF m.PAYCOM_Resolved_Column = <<>> THEN 0 ELSE ColumnNamed(paycom, m.PAYCOM_Resolved_Column)
\* a normalized identifier: no surrounding whitespace, no trailing ".0"
IsNormalKey(k) == strip(k) = k /\ ~IsDigitsDotZeros(k)

(* C12: the employees iterated are the non-empty normalized identifiers of both
   tables, each once, in ascending order (no identifier keeps surrounding whitespace
   or a trailing ".0", so such spellings are one key); every detail row shows the
   cells of the first row of its employee in each table, and no pair of employee and
   field has a second row. *)
C12_SortedUnionFirstRow ==
    pc \in {"loop", "done"} =>
        /\ {all_emp[e] : e \in 1..Len(all_emp)} = Aligned
        /\ \A e \in 1..(Len(all_emp) - 1) : StrLess(all_emp[e], all_emp[e + 1])
        /\ \A e \in 1..Len(all_emp) : IsNormalKey(all_emp[e])
        /\ \A i \in RowIndex :
              /\ rows[i].UZIO_Value =
                    FirstRowCell(uzio, UZIO_KEY, rows[i].Employee, ColumnNamed(uzio, rows[i].Field))
              /\ rows[i].PAYCOM_Value =
                    FirstRowCell(paycom, PAYCOM_KEY, rows[i].Employee, PaycomColumnOf(EntryFor(rows[i].Field)))
        /\ \A i, j \in RowIndex :
              (rows[i].Employee = rows[j].Employee /\ rows[i].Field = rows[j].Field) => i = j

\* a finished run over two employees, one of them with two UZIO rows whose cells
\* differ for a mapped field: the detail row shows the cell of the first
C12_Witness ==
    /\ pc = "done"
    /\ Len(all_emp) >= 2
    /\ \E i \in RowIndex : \E r, q \in RowsWithKey(uzio, UZIO_KEY, rows[i].Employee) :
          /\ r < q
          /\ ColumnNamed(uzio, rows[i].Field) # 0
          /\ uzio.data[r][ColumnNamed(uzio, rows[i].Field)] # uzio.data[q][ColumnNamed(uzio, rows[i].Field)]
          /\ rows[i].UZIO_Value = uzio.data[r][ColumnNamed(uzio, rows[i].Field)]

\* the employees of the detail table
DetailEmployees == {rows[i].Employee : i \in RowIndex}

(* C13: in a finished run, also over tables with blank identifiers, "Employees in
   both" + "Employees only in UZIO" + "Employees only in Paycom" is the number of
   employees of the detail table when a field is mapped, and "Total Comparisons" is
   that number of employees times "Fields Compared". *)
C13_SummaryConsistent ==
    pc = "done" =>
        /\ Len(map_tbl_valid) >= 1 =>
              summary.Employees_in_both + summary.Employees_only_in_UZIO
                  + summary.Employees_only_in_Paycom = Cardinality(DetailEmployees)
        /\ summary.Total_Comparisons = Cardinality(DetailEmployees) * summary.Fields_Compared
=============================================================================
